---- MODULE Spec2Model ----
(***************************************************************************)
(* A model of the graph algorithm engine of GraphCanvas.jsx: the React     *)
(* state of the component, its event handlers, and the two asynchronous    *)
(* algorithm runs (detectCycles, findAllPathsBetweenNodes) whose pacing     *)
(* delays (sleep) are the points where other handlers interleave.          *)
(*                                                                         *)
(* A run is an async function.  Everything it reads (nodes, edges,         *)
(* isDirected, selectedNodes) comes from the closure of the render in      *)
(* which it was started, so the sequence of state updates it will issue is *)
(* fixed when it starts.  The model computes that sequence as the code     *)
(* does, cut into segments at every `await sleep(..)`; the first segment   *)
(* runs inside the handler that starts the run, each later one when its    *)
(* timer fires (action Tick).  State updates are applied in issue order,   *)
(* as React applies a batch of queued updates.                             *)
(*                                                                         *)
(* Pointer coordinates are abstracted to the identity of the node hit.     *)
(***************************************************************************)
EXTENDS Integers, Sequences, FiniteSets, TLC

VARIABLES
    input,              \* the textarea's text: a sequence of lines
    nodes,              \* sequence of node records
    edges,              \* sequence of edge records
    isDirected,
    isAnimating,
    currentAlgorithm,   \* "", "cycles" or "findpaths"
    selectedNodes,      \* sequence of node ids
    pathsBetweenNodes,  \* published path list
    foundCycles,        \* published cycle list
    algorithmState,     \* [cycleCount, cycles]; {} is cycleCount 0
    isDragging,
    dragNodeId,         \* a node id, or NoNode
    runs,               \* the async runs in flight: remaining segments of each
    uncaught,           \* the last uncaught exception the browser reported, or NoError
    editingNode,        \* the node whose label is being edited, or NoNode
    labelInput,         \* the text of the label editor
    tableNodes,         \* NodeTable: sequence of [id, label] rows
    notifications       \* NodeTable: the number of onNodesUpdate calls made

\* The state of GraphCanvas the algorithms and the pointer handlers work on
canvasVars == <<input, nodes, edges, isDirected, isAnimating, currentAlgorithm,
                selectedNodes, pathsBetweenNodes, foundCycles, algorithmState,
                isDragging, dragNodeId, runs, uncaught>>

\* The label editor of GraphCanvas and the state of NodeTable
editVars == <<editingNode, labelInput>>
tableVars == <<tableNodes, notifications>>

vars == <<input, nodes, edges, isDirected, isAnimating, currentAlgorithm,
          selectedNodes, pathsBetweenNodes, foundCycles, algorithmState,
          isDragging, dragNodeId, runs, uncaught, editVars, tableVars>>

----------------------------------------------------------------------------
(* Bounds of the model *)

\* Node ids of the bounded graph family are 0..MaxNodeId.
MaxNodeId == 2
\* Edge lists of the bounded graph family have at most MaxEdges edges.
MaxEdges == 3

----------------------------------------------------------------------------
(* Program constants *)

NodeBaseColor == "#4f46e5"
EdgeBaseColor == "#6b7280"
VisitColor == "#fbbf24"
DoneColor == "#10b981"
NoCycleColor == "#22c55e"
FallbackColor == "#ef4444"
NoNode == -1

CycleColors == <<"#ef4444", "#f59e0b", "#8b5cf6", "#ec4899", "#06b6d4", "#84cc16">>

PathColors == <<"#ef4444", "#3b82f6", "#f59e0b", "#06b6d4", "#22c55e", "#ec4899",
                "#8b5cf6", "#84cc16", "#eab308", "#f43f5e", "#a21caf", "#0ea5e9">>

\* Tree layout geometry (hangTreeFromRoot).
VerticalGap == 100
NodeGap == 80
BaseY == 80
CanvasW == 1000

----------------------------------------------------------------------------
(* Sequence helpers: the array methods the code uses *)

\* Array.prototype.includes
Includes(s, v) == \E i \in DOMAIN s : s[i] = v

\* Array.prototype.indexOf, for a value that occurs
IndexOf(s, v) == CHOOSE i \in DOMAIN s : s[i] = v /\ \A j \in 1..(i-1) : s[j] # v

\* Array.prototype.slice(start) with a 1-based start
SliceFrom(s, i) == SubSeq(s, i, Len(s))

\* Insertion of v into an ascending sequence
RECURSIVE InsertSorted(_, _)
InsertSorted(s, v) ==
    IF s = <<>> THEN <<v>>
    ELSE IF v <= Head(s) THEN <<v>> \o s
    ELSE <<Head(s)>> \o InsertSorted(Tail(s), v)

\* Array.prototype.sort((a, b) => a - b)
RECURSIVE SortNum(_)
SortNum(s) == IF s = <<>> THEN <<>> ELSE InsertSorted(SortNum(Tail(s)), Head(s))

----------------------------------------------------------------------------
(* Graph description language: parseInput *)

\* A line is a sequence of whitespace-separated tokens; a token is a digit
\* string (num, with its value) or anything else.
Num(v) == [num |-> TRUE, val |-> v]
Junk == [num |-> FALSE, val |-> 0]

\* /^\d+$/
IsNodeLine(line) == Len(line) = 1 /\ line[1].num

\* /^\d+\s+\d+(\s+\d+)?$/
IsEdgeLine(line) == Len(line) \in {2, 3} /\ \A i \in DOMAIN line : line[i].num

\* The default circular layout: node i of n sits at angle 2*pi*i/n.
CirclePos(i, n) == [kind |-> "circle", a |-> i, b |-> n]
XYPos(x, y) == [kind |-> "xy", a |-> x, b |-> y]

NewNode(id, i, n) == [id |-> id, pos |-> CirclePos(i, n), label |-> "", color |-> NodeBaseColor]

NewEdge(line) ==
    [from |-> line[1].val, to |-> line[2].val,
     weight |-> IF Len(line) = 3 THEN line[3].val ELSE 1,
     isSelfLoop |-> line[1].val = line[2].val,
     highlighted |-> FALSE, color |-> EdgeBaseColor]

\* lines.filter(Boolean): blank lines are dropped
NonBlank(line) == line # <<>>

\* nodeIds, in declaration order
RECURSIVE ParseNodeIds(_)
ParseNodeIds(lines) ==
    IF lines = <<>> THEN <<>>
    ELSE IF IsNodeLine(Head(lines)) THEN <<Head(lines)[1].val>> \o ParseNodeIds(Tail(lines))
    ELSE ParseNodeIds(Tail(lines))

\* edgeList, in declaration order
RECURSIVE ParseEdges(_)
ParseEdges(lines) ==
    IF lines = <<>> THEN <<>>
    ELSE IF ~IsNodeLine(Head(lines)) /\ IsEdgeLine(Head(lines))
         THEN <<NewEdge(Head(lines))>> \o ParseEdges(Tail(lines))
    ELSE ParseEdges(Tail(lines))

ParsedNodes(text) ==
    LET ids == ParseNodeIds(SelectSeq(text, NonBlank))
    IN [i \in DOMAIN ids |-> NewNode(ids[i], i - 1, Len(ids))]

ParsedEdges(text) == ParseEdges(SelectSeq(text, NonBlank))

----------------------------------------------------------------------------
(* State updates.  A handler or a run segment issues a sequence of updates *)
(* (setNodes, setEdges, setIsAnimating, ...); React applies them in order  *)
(* to the component state, here the record R.                              *)

NoList == <<>>

Ev(type, a, b, color, val) == [type |-> type, a |-> a, b |-> b, color |-> color, val |-> val]

\* setNodeColor(nodeId, color)
EvNode(id, color) == Ev("node", id, 0, color, NoList)
\* highlightEdge(from, to, color)
EvEdge(from, to, color) == Ev("edge", from, to, color, NoList)
\* setIsAnimating(flag)
EvAnimating(flag) == Ev("animating", IF flag THEN 1 ELSE 0, 0, "", NoList)
\* setFoundCycles(list)
EvCycles(list) == Ev("cycles", 0, 0, "", list)
\* setAlgorithmState({cycleCount, cycles})
EvAlgState(list) == Ev("algstate", Len(list), 0, "", list)
\* setPathsBetweenNodes(list)
EvPaths(list) == Ev("paths", 0, 0, "", list)
\* setEdges(prev => prev.map(e => ({...e, color: "#6b7280"})))
EvEdgeColorsReset == Ev("edgecolors", 0, 0, EdgeBaseColor, NoList)
\* setNodes(prev => prev.map(n => ({...n, color: "#4f46e5"})))
EvNodeColorsReset == Ev("nodecolors", 0, 0, NodeBaseColor, NoList)

SetNodeColor(ns, id, color) ==
    [i \in DOMAIN ns |-> IF ns[i].id = id THEN [ns[i] EXCEPT !.color = color] ELSE ns[i]]

\* highlightEdge reads isDirected from the closure of the render that started the run
HighlightEdge(es, from, to, color, directed) ==
    [i \in DOMAIN es |->
        IF (es[i].from = from /\ es[i].to = to)
           \/ (~directed /\ es[i].from = to /\ es[i].to = from)
        THEN [es[i] EXCEPT !.color = color, !.highlighted = TRUE]
        ELSE es[i]]

ApplyEvent(R, ev, directed) ==
    CASE ev.type = "node" -> [R EXCEPT !.nodes = SetNodeColor(@, ev.a, ev.color)]
      [] ev.type = "edge" -> [R EXCEPT !.edges = HighlightEdge(@, ev.a, ev.b, ev.color, directed)]
      [] ev.type = "animating" -> [R EXCEPT !.isAnimating = (ev.a = 1)]
      [] ev.type = "cycles" -> [R EXCEPT !.foundCycles = ev.val]
      [] ev.type = "algstate" -> [R EXCEPT !.algorithmState = [cycleCount |-> ev.a, cycles |-> ev.val]]
      [] ev.type = "paths" -> [R EXCEPT !.pathsBetweenNodes = ev.val]
      [] ev.type = "edgecolors" ->
            [R EXCEPT !.edges = [i \in DOMAIN @ |-> [@[i] EXCEPT !.color = EdgeBaseColor]]]
      [] ev.type = "nodecolors" ->
            [R EXCEPT !.nodes = [i \in DOMAIN @ |-> [@[i] EXCEPT !.color = NodeBaseColor]]]

RECURSIVE ApplySegment(_, _, _)
ApplySegment(R, seg, directed) ==
    IF seg = <<>> THEN R
    ELSE ApplySegment(ApplyEvent(R, Head(seg), directed), Tail(seg), directed)

\* The component state the handlers update
Cur ==
    [nodes |-> nodes, edges |-> edges, isAnimating |-> isAnimating,
     currentAlgorithm |-> currentAlgorithm, selectedNodes |-> selectedNodes,
     pathsBetweenNodes |-> pathsBetweenNodes, foundCycles |-> foundCycles,
     algorithmState |-> algorithmState]

Commit(R) ==
    /\ nodes' = R.nodes
    /\ edges' = R.edges
    /\ isAnimating' = R.isAnimating
    /\ currentAlgorithm' = R.currentAlgorithm
    /\ selectedNodes' = R.selectedNodes
    /\ pathsBetweenNodes' = R.pathsBetweenNodes
    /\ foundCycles' = R.foundCycles
    /\ algorithmState' = R.algorithmState

EmptyAlgState == [cycleCount |-> 0, cycles |-> <<>>]

\* Faulty variant: resetAlgorithmState without its setEdges call
ResetKeepsEdgeColors(R) ==
    [R EXCEPT !.isAnimating = FALSE,
              !.currentAlgorithm = "",
              !.algorithmState = EmptyAlgState,
              !.selectedNodes = <<>>,
              !.nodes = [i \in DOMAIN @ |-> [@[i] EXCEPT !.color = NodeBaseColor]],
              !.foundCycles = <<>>,
              !.pathsBetweenNodes = <<>>]

\* resetAlgorithmState()
ResetAlgorithmState(R) ==
    [R EXCEPT !.isAnimating = FALSE,
              !.currentAlgorithm = "",
              !.algorithmState = EmptyAlgState,
              !.selectedNodes = <<>>,
              !.nodes = [i \in DOMAIN @ |-> [@[i] EXCEPT !.color = NodeBaseColor]],
              !.edges = [i \in DOMAIN @ |-> [@[i] EXCEPT !.highlighted = FALSE, !.color = EdgeBaseColor]],
              !.foundCycles = <<>>,
              !.pathsBetweenNodes = <<>>]

----------------------------------------------------------------------------
(* The trace of a run: the local state of the async function *)

Emit(st, ev) == [st EXCEPT !.cur = Append(@, ev)]

RECURSIVE EmitAll(_, _)
EmitAll(st, evs) == IF evs = <<>> THEN st ELSE EmitAll(Emit(st, Head(evs)), Tail(evs))

\* await sleep(ms): the updates issued so far form one segment
Sleep(st) == [st EXCEPT !.segs = Append(@, st.cur), !.cur = <<>>]

\* colors[allCycles.length - 1] || "#ef4444"
CycleColor(n) == IF n \in DOMAIN CycleColors THEN CycleColors[n] ELSE FallbackColor

\* for (i < cycle.length) { highlightEdge(cycle[i], cycle[(i+1) % len], color); setNodeColor(cycle[i], color) }
RECURSIVE CycleHighlights(_, _, _)
CycleHighlights(cycle, i, color) ==
    IF i > Len(cycle) THEN <<>>
    ELSE <<EvEdge(cycle[i], cycle[(i % Len(cycle)) + 1], color), EvNode(cycle[i], color)>>
         \o CycleHighlights(cycle, i + 1, color)

\* allCycles.some(cy => cy.length === cycle.length
\*                      && cy.sort((a,b)=>a-b).every((v,i) => v === cycleSorted[i]))
\* sort() sorts cy in place: every stored cycle of that length, up to and
\* including the first match, is left sorted in allCycles.
RECURSIVE DedupScan(_, _, _, _)
DedupScan(all, i, len, cycleSorted) ==
    IF i > Len(all) THEN [all |-> all, found |-> FALSE]
    ELSE IF Len(all[i]) = len
         THEN LET sorted == SortNum(all[i])
                  all2 == [all EXCEPT ![i] = sorted]
              IN IF sorted = cycleSorted THEN [all |-> all2, found |-> TRUE]
                 ELSE DedupScan(all2, i + 1, len, cycleSorted)
    ELSE DedupScan(all, i + 1, len, cycleSorted)

Other(e, nodeId) == IF e.from = nodeId THEN e.to ELSE e.from

RECURSIVE DfsUndirected(_, _, _, _, _)
RECURSIVE UndirectedLoop(_, _, _, _, _)

UndirectedLoop(E, st, nodeId, path, nbrs) ==
    IF nbrs = <<>> THEN st
    ELSE LET neighbor == Other(Head(nbrs), nodeId)
             st2 ==
               IF Includes(path, neighbor)
               THEN LET cycle == SliceFrom(path, IndexOf(path, neighbor)) \o <<nodeId>>
                        scan == DedupScan(st.all, 1, Len(cycle), SortNum(cycle))
                    IN IF ~scan.found
                       THEN LET all2 == Append(scan.all, cycle)
                                color == CycleColor(Len(all2))
                            IN Sleep(EmitAll([st EXCEPT !.all = all2],
                                             CycleHighlights(cycle, 1, color)))
                       ELSE [st EXCEPT !.all = scan.all]
               ELSE IF neighbor \notin st.visited
               THEN DfsUndirected(E, st, neighbor, nodeId, path \o <<nodeId>>)
               ELSE st
         IN UndirectedLoop(E, st2, nodeId, path, Tail(nbrs))

\* Faulty variant: dfsUndirected walking back over the edge it came by
DfsUndirectedWalksBack(E, st, nodeId, parent, path) ==
    LET st1 == Sleep(Emit([st EXCEPT !.visited = @ \cup {nodeId}], EvNode(nodeId, VisitColor)))
        Keep(e) == /\ ~e.isSelfLoop
                   /\ (e.from = nodeId \/ e.to = nodeId)
    IN UndirectedLoop(E, st1, nodeId, path, SelectSeq(E, Keep))

DfsUndirected(E, st, nodeId, parent, path) ==
    LET st1 == Sleep(Emit([st EXCEPT !.visited = @ \cup {nodeId}], EvNode(nodeId, VisitColor)))
        Keep(e) == /\ ~e.isSelfLoop
                   /\ (e.from = nodeId \/ e.to = nodeId)
                   /\ Other(e, nodeId) # parent
    IN UndirectedLoop(E, st1, nodeId, path, SelectSeq(E, Keep))

RECURSIVE DfsDirected(_, _, _)
RECURSIVE DirectedLoop(_, _, _, _)

DirectedLoop(E, st, nodeId, nbrs) ==
    IF nbrs = <<>> THEN st
    ELSE LET neighbor == Head(nbrs).to
             st2 ==
               IF neighbor \notin st.visited
               THEN DfsDirected(E, st, neighbor)
               ELSE IF neighbor \in st.onStack
               THEN LET cycle == SliceFrom(st.stack, IndexOf(st.stack, neighbor))
                        scan == DedupScan(st.all, 1, Len(cycle), SortNum(cycle))
                    IN IF ~scan.found
                       THEN LET all2 == Append(scan.all, cycle \o <<neighbor>>)
                                color == CycleColor(Len(all2))
                            IN Sleep(Emit(EmitAll([st EXCEPT !.all = all2],
                                                  CycleHighlights(cycle, 1, color)),
                                          EvNode(neighbor, color)))
                       ELSE [st EXCEPT !.all = scan.all]
               ELSE st
         IN DirectedLoop(E, st2, nodeId, Tail(nbrs))

DfsDirected(E, st, nodeId) ==
    LET st1 == Sleep(Emit([st EXCEPT !.stack = Append(@, nodeId),
                                     !.onStack = @ \cup {nodeId},
                                     !.visited = @ \cup {nodeId}],
                          EvNode(nodeId, VisitColor)))
        Keep(e) == e.from = nodeId /\ ~e.isSelfLoop
        st2 == DirectedLoop(E, st1, nodeId, SelectSeq(E, Keep))
    IN Emit([st2 EXCEPT !.stack = SubSeq(@, 1, Len(@) - 1),
                        !.onStack = @ \ {nodeId}],
            EvNode(nodeId, DoneColor))

\* for (let selfLoop of selfLoops) { allCycles.push([selfLoop.from]); ...; await sleep(speed) }
RECURSIVE SelfLoopPass(_, _)
SelfLoopPass(st, loops) ==
    IF loops = <<>> THEN st
    ELSE LET all2 == Append(st.all, <<Head(loops).from>>)
             color == CycleColor(Len(all2))
         IN SelfLoopPass(
              Sleep(EmitAll([st EXCEPT !.all = all2],
                            <<EvEdge(Head(loops).from, Head(loops).to, color),
                              EvNode(Head(loops).from, color)>>)),
              Tail(loops))

\* for (let node of nodes) if (!visited.has(node.id)) await dfs(node.id, ...)
RECURSIVE RootLoop(_, _, _, _)
RootLoop(E, st, N, directed) ==
    IF N = <<>> THEN st
    ELSE LET id == Head(N).id
             st2 == IF id \in st.visited THEN st
                    ELSE IF directed THEN DfsDirected(E, st, id)
                    ELSE DfsUndirected(E, st, id, -1, <<>>)
         IN RootLoop(E, st2, Tail(N), directed)

AllNodeColor(N, color) == [i \in DOMAIN N |-> EvNode(N[i].id, color)]

\* Faulty variant: the self-loop filter letting no edge through
NeverSelfLoop(e) == FALSE

\* edges.filter(e => e.isSelfLoop)
IsSelfLoop(e) == e.isSelfLoop

\* The local state of detectCycles when its searches are over
CycleSearch(N, E, directed) ==
    LET st0 == [all |-> <<>>, visited |-> {}, stack |-> <<>>, onStack |-> {},
                segs |-> <<>>, cur |-> <<EvAnimating(TRUE)>>]
    IN RootLoop(E, SelfLoopPass(st0, SelectSeq(E, IsSelfLoop)), N, directed)

\* Faulty variant: detectCycles without its final setIsAnimating(false)
DetectCyclesStaysAnimating(N, E, directed) ==
    LET st == CycleSearch(N, E, directed)
        st2 == Emit(st, EvCycles(st.all))
        st3 == IF Len(st.all) = 0
               THEN EmitAll(Sleep(EmitAll(st2, AllNodeColor(N, NoCycleColor))),
                            AllNodeColor(N, NodeBaseColor))
               ELSE Emit(st2, EvAlgState(st.all))
    IN Sleep(st3).segs

\* detectCycles: the segments of state updates it issues, in order
DetectCycles(N, E, directed) ==
    LET st == CycleSearch(N, E, directed)
        st2 == Emit(st, EvCycles(st.all))
        st3 == IF Len(st.all) = 0
               THEN EmitAll(Sleep(EmitAll(st2, AllNodeColor(N, NoCycleColor))),
                            AllNodeColor(N, NodeBaseColor))
               ELSE Emit(st2, EvAlgState(st.all))
    IN Sleep(Emit(st3, EvAnimating(FALSE))).segs

\* CycleFinder's result list
CycleFinder(N, E, directed) == CycleSearch(N, E, directed).all

----------------------------------------------------------------------------
(* PathFinder: findAllPathsBetweenNodes *)

\* Faulty variant: getNeighbors following every edge forward only, whatever isDirected
GetNeighborsForwardOnly(E, directed, id) ==
    LET Out(e) == e.from = id /\ ~e.isSelfLoop
        es == SelectSeq(E, Out)
    IN [i \in DOMAIN es |-> es[i].to]

\* getNeighbors(id)
GetNeighbors(E, directed, id) ==
    LET Out(e) == e.from = id /\ ~e.isSelfLoop
        Touch(e) == (e.from = id \/ e.to = id) /\ ~e.isSelfLoop
        es == IF directed THEN SelectSeq(E, Out) ELSE SelectSeq(E, Touch)
    IN [i \in DOMAIN es |-> IF directed THEN es[i].to ELSE Other(es[i], id)]

RECURSIVE PathDfs(_, _, _, _, _)
RECURSIVE PathLoop(_, _, _, _, _)

PathLoop(E, directed, end, acc, nbrs) ==
    IF nbrs = <<>> THEN acc
    ELSE LET acc2 == IF Head(nbrs) \notin acc.visited
                     THEN PathDfs(E, directed, end, acc, Head(nbrs))
                     ELSE acc
         IN PathLoop(E, directed, end, acc2, Tail(nbrs))

\* Faulty variant: dfs without its final visited.delete(current)
PathDfsKeepsVisited(E, directed, end, acc, current) ==
    LET acc1 == [acc EXCEPT !.visited = @ \cup {current}, !.path = Append(@, current)]
        acc2 == IF current = end
                THEN [acc1 EXCEPT !.allPaths = Append(@, acc1.path)]
                ELSE PathLoop(E, directed, end, acc1, GetNeighbors(E, directed, current))
    IN [acc2 EXCEPT !.path = SubSeq(@, 1, Len(@) - 1)]

\* dfs(current, visited), with the shared path and allPaths
PathDfs(E, directed, end, acc, current) ==
    LET acc1 == [acc EXCEPT !.visited = @ \cup {current}, !.path = Append(@, current)]
        acc2 == IF current = end
                THEN [acc1 EXCEPT !.allPaths = Append(@, acc1.path)]
                ELSE PathLoop(E, directed, end, acc1, GetNeighbors(E, directed, current))
    IN [acc2 EXCEPT !.path = SubSeq(@, 1, Len(@) - 1), !.visited = @ \ {current}]

\* Faulty variant: the search started from the second selected node towards the first
PathFinderSwapped(E, directed, start, end) ==
    PathDfs(E, directed, start, [allPaths |-> <<>>, path |-> <<>>, visited |-> {}], end).allPaths

\* PathFinder's result list: allPaths after dfs(start, new Set())
PathFinder(E, directed, start, end) ==
    PathDfs(E, directed, end, [allPaths |-> <<>>, path |-> <<>>, visited |-> {}], start).allPaths

\* pathColors[i % pathColors.length], i counted from 1 here
PathColor(i) == PathColors[((i - 1) % Len(PathColors)) + 1]

PathHighlights(path, color) ==
    [j \in 1..(Len(path) - 1) |-> EvEdge(path[j], path[j + 1], color)]
    \o [j \in 1..Len(path) |-> EvNode(path[j], color)]

RECURSIVE PathPass(_, _, _)
\* Faulty variant: the highlight loop publishing the paths shown so far
PathPassPublishesEarly(st, allPaths, i) ==
    IF i > Len(allPaths) THEN st
    ELSE PathPass(Sleep(Emit(EmitAll(st, PathHighlights(allPaths[i], PathColor(i))),
                             EvPaths(SubSeq(allPaths, 1, i)))),
                  allPaths, i + 1)

PathPass(st, allPaths, i) ==
    IF i > Len(allPaths) THEN st
    ELSE PathPass(Sleep(EmitAll(st, PathHighlights(allPaths[i], PathColor(i)))), allPaths, i + 1)

\* findAllPathsBetweenNodes: the segments of state updates it issues, in order;
\* sel is selectedNodes as the starting render saw it
FindAllPathsBetweenNodes(E, directed, sel) ==
    LET st0 == [segs |-> <<>>, cur |-> <<EvAnimating(TRUE), EvPaths(<<>>)>>]
    IN IF Len(sel) # 2
       THEN Sleep(Emit(st0, EvAnimating(FALSE))).segs
       ELSE LET allPaths == PathFinder(E, directed, sel[1], sel[2])
                st1 == EmitAll(st0, <<EvEdgeColorsReset, EvNodeColorsReset>>)
                st2 == PathPass(st1, allPaths, 1)
            IN Sleep(EmitAll(st2, <<EvPaths(allPaths), EvAnimating(FALSE)>>)).segs

----------------------------------------------------------------------------
(* TreeLayering: hangTreeFromRoot *)

NodeIdSet(N) == {N[i].id : i \in DOMAIN N}

\* edges.forEach(e => childMap.get(e.from).push(e.to) ...): childMap.get of an id
\* that is no node is undefined, and .push on it throws a TypeError
RECURSIVE BuildChildMap(_, _, _)
BuildChildMap(cm, E, directed) ==
    IF E = <<>> THEN [threw |-> FALSE, map |-> cm]
    ELSE LET e == Head(E)
         IN IF e.isSelfLoop THEN BuildChildMap(cm, Tail(E), directed)
            ELSE IF e.from \notin DOMAIN cm THEN [threw |-> TRUE, map |-> cm]
            ELSE LET cm1 == [cm EXCEPT ![e.from] = Append(@, e.to)]
                 IN IF directed THEN BuildChildMap(cm1, Tail(E), directed)
                    ELSE IF e.to \notin DOMAIN cm THEN [threw |-> TRUE, map |-> cm1]
                    ELSE BuildChildMap([cm1 EXCEPT ![e.to] = Append(@, e.from)], Tail(E), directed)

\* for (const child of childMap.get(node)) if (!visited.has(child)) queue.push([child, level + 1, node])
QueueChildren(children, visited, level) ==
    LET Unvisited(c) == c \notin visited
        cs == SelectSeq(children, Unvisited)
    IN [i \in DOMAIN cs |-> <<cs[i], level + 1>>]

\* while (queue.length) { ... }: the levels, or a TypeError when a dequeued id has
\* no childMap entry (for..of over undefined)
RECURSIVE Bfs(_, _, _, _)
Bfs(queue, visited, levels, cm) ==
    IF queue = <<>> THEN [threw |-> FALSE, levels |-> levels]
    ELSE LET node == Head(queue)[1]
             level == Head(queue)[2]
         IN IF node \in visited THEN Bfs(Tail(queue), visited, levels, cm)
            ELSE LET levels1 == IF level + 1 > Len(levels)
                                THEN Append(levels, <<node>>)
                                ELSE [levels EXCEPT ![level + 1] = Append(@, node)]
                 IN IF node \notin DOMAIN cm THEN [threw |-> TRUE, levels |-> levels1]
                    ELSE Bfs(Tail(queue) \o QueueChildren(cm[node], visited \cup {node}, level),
                             visited \cup {node}, levels1, cm)

\* The per-level ordered membership lists computed by hangTreeFromRoot
TreeLevels(N, E, directed, rootId) ==
    LET built == BuildChildMap([id \in NodeIdSet(N) |-> <<>>], E, directed)
    IN IF built.threw THEN [threw |-> TRUE, levels |-> <<>>]
       ELSE Bfs(<<<<rootId, 0>>>>, {}, <<>>, built.map)

\* newPositions[levels[lvl][i]] = { x: canvasW/2 - totalWidth/2 + i*nodeGap, y: baseY + lvl*verticalGap }
\* with lvl and i counted from 1 here
TreePos(levels, lvl, i) ==
    XYPos((CanvasW \div 2) - (((Len(levels[lvl]) - 1) * NodeGap) \div 2) + (i - 1) * NodeGap,
          BaseY + (lvl - 1) * VerticalGap)

HasNewPosition(levels, id) == \E l \in DOMAIN levels : Includes(levels[l], id)

NewPosition(levels, id) ==
    LET l == CHOOSE l \in DOMAIN levels : Includes(levels[l], id)
    IN TreePos(levels, l, IndexOf(levels[l], id))

\* Faulty variant: the layout rebuilding the moved nodes without their colour
ApplyTreePositionsDropsColour(N, levels) ==
    [i \in DOMAIN N |-> IF HasNewPosition(levels, N[i].id)
                        THEN [N[i] EXCEPT !.pos = NewPosition(levels, N[i].id),
                                          !.color = NodeBaseColor]
                        ELSE N[i]]

\* setNodes(prev => prev.map(n => newPositions[n.id] ? {...n, x, y} : n))
ApplyTreePositions(N, levels) ==
    [i \in DOMAIN N |-> IF HasNewPosition(levels, N[i].id)
                        THEN [N[i] EXCEPT !.pos = NewPosition(levels, N[i].id)]
                        ELSE N[i]]

----------------------------------------------------------------------------
(* Inputs *)

NodeLine(v) == <<Num(v)>>
EdgeLine(a, b) == <<Num(a), Num(b)>>

\* useState(`0\n1\n2\n3\n4\n0 1\n1 2\n2 3\n3 0\n1 4\n2 2`)
DefaultInput ==
    <<NodeLine(0), NodeLine(1), NodeLine(2), NodeLine(3), NodeLine(4),
      EdgeLine(0, 1), EdgeLine(1, 2), EdgeLine(2, 3), EdgeLine(3, 0), EdgeLine(1, 4), EdgeLine(2, 2)>>

\* "0\n1\n\n0\nfoo\n0 1 5\n1 7\n0 1 2 3": a blank line, a repeated node id, a line
\* that is neither a node nor an edge, a weighted edge, an edge to an undeclared
\* node, and a line of four numbers
MessyInput ==
    <<NodeLine(0), NodeLine(1), <<>>, NodeLine(0), <<Junk>>,
      <<Num(0), Num(1), Num(5)>>, EdgeLine(1, 7), <<Num(0), Num(1), Num(2), Num(3)>>>>

\* "0\n1\n2\n0 1\n0 2\n1 2\n2 0"
ChordInput ==
    <<NodeLine(0), NodeLine(1), NodeLine(2),
      EdgeLine(0, 1), EdgeLine(0, 2), EdgeLine(1, 2), EdgeLine(2, 0)>>

\* "0\n1\n0 1\n1 0\n1 0"
ParallelInput ==
    <<NodeLine(0), NodeLine(1), EdgeLine(0, 1), EdgeLine(1, 0), EdgeLine(1, 0)>>

\* The texts the user types in this model
Texts == {DefaultInput, MessyInput, ChordInput, ParallelInput}

\* The bounded family of graph descriptions: the nodes 0..MaxNodeId declared in
\* ascending order, or all but the last of them, then up to MaxEdges edge lines
\* over 0..MaxNodeId (an edge may name the undeclared node).
FamilyIds == 0..MaxNodeId

RECURSIVE Ascending(_, _)
Ascending(a, b) == IF a > b THEN <<>> ELSE <<NodeLine(a)>> \o Ascending(a + 1, b)

FamilyNodeLines == {Ascending(0, MaxNodeId), Ascending(0, MaxNodeId - 1)}

RECURSIVE EdgeLineSeqs(_)
EdgeLineSeqs(n) ==
    IF n = 0 THEN {<<>>}
    ELSE LET shorter == EdgeLineSeqs(n - 1)
         IN shorter \cup {Append(s, EdgeLine(a, b)) : s \in shorter, a \in FamilyIds, b \in FamilyIds}

FamilyTexts == {ns \o es : ns \in FamilyNodeLines, es \in EdgeLineSeqs(MaxEdges)}

----------------------------------------------------------------------------
(* Handlers *)

\* An uncaught TypeError, as reported by the browser: the handler and its argument
NoError == [op |-> "", node |-> NoNode]
TypeError(op, node) == [op |-> op, node |-> node]

\* The useState initial values
Constructed ==
    [nodes |-> <<>>, edges |-> <<>>, isAnimating |-> FALSE, currentAlgorithm |-> "",
     selectedNodes |-> <<>>, pathsBetweenNodes |-> <<>>, foundCycles |-> <<>>,
     algorithmState |-> EmptyAlgState]

\* Faulty variant: parseInput replacing nodes and edges only
ParsedKeepsTransientState(R, text) ==
    [R EXCEPT !.nodes = ParsedNodes(text), !.edges = ParsedEdges(text)]

\* parseInput's updates, applied to component state R
Parsed(R, text) ==
    [ResetAlgorithmState([R EXCEPT !.nodes = ParsedNodes(text), !.edges = ParsedEdges(text)])
       EXCEPT !.foundCycles = <<>>, !.pathsBetweenNodes = <<>>]

\* The mounted component: useEffect(() => { parseInput(); }, [])
Mounted(text, directed) ==
    LET R == Parsed(Constructed, text)
    IN /\ input = text
       /\ nodes = R.nodes
       /\ edges = R.edges
       /\ isAnimating = R.isAnimating
       /\ currentAlgorithm = R.currentAlgorithm
       /\ selectedNodes = R.selectedNodes
       /\ pathsBetweenNodes = R.pathsBetweenNodes
       /\ foundCycles = R.foundCycles
       /\ algorithmState = R.algorithmState
       /\ isDirected = directed
       /\ isDragging = FALSE
       /\ dragNodeId = NoNode
       /\ runs = <<>>
       /\ uncaught = NoError
       /\ editingNode = NoNode
       /\ labelInput = ""

\* GraphCanvas renders no NodeTable
NoTable == tableNodes = <<>> /\ notifications = 0

Init == Mounted(DefaultInput, FALSE) /\ NoTable

\* "Generate Graph" (disabled while animating)
ParseInput ==
    /\ UNCHANGED <<editVars, tableVars>>
    /\ ~isAnimating
    /\ Commit(Parsed(Cur, input))
    /\ UNCHANGED <<input, isDirected, isDragging, dragNodeId, runs, uncaught>>

\* The textarea's onChange (disabled while animating)
SetInput(text) ==
    /\ UNCHANGED <<editVars, tableVars>>
    /\ ~isAnimating
    /\ input' = text
    /\ UNCHANGED <<nodes, edges, isDirected, isAnimating, currentAlgorithm, selectedNodes,
                   pathsBetweenNodes, foundCycles, algorithmState, isDragging, dragNodeId, runs, uncaught>>

\* The "Directed Graph" checkbox (disabled while animating)
SetIsDirected ==
    /\ UNCHANGED <<editVars, tableVars>>
    /\ ~isAnimating
    /\ isDirected' = ~isDirected
    /\ UNCHANGED <<input, nodes, edges, isAnimating, currentAlgorithm, selectedNodes,
                   pathsBetweenNodes, foundCycles, algorithmState, isDragging, dragNodeId, runs, uncaught>>

\* "Reset" (disabled while animating)
ResetClick ==
    /\ UNCHANGED <<editVars, tableVars>>
    /\ ~isAnimating
    /\ Commit(ResetAlgorithmState(Cur))
    /\ UNCHANGED <<input, isDirected, isDragging, dragNodeId, runs, uncaught>>

\* "Find All Paths" (disabled while animating)
ClickFindAllPaths ==
    /\ UNCHANGED <<editVars, tableVars>>
    /\ ~isAnimating
    /\ Commit([ResetAlgorithmState(Cur) EXCEPT !.currentAlgorithm = "findpaths"])
    /\ UNCHANGED <<input, isDirected, isDragging, dragNodeId, runs, uncaught>>

\* Faulty variant: the selection update without its prev.includes test
SelectionAfterClickAddsAgain(id) ==
    IF ~isAnimating /\ currentAlgorithm # ""
    THEN IF currentAlgorithm = "findpaths"
         THEN IF Len(selectedNodes) < 2
              THEN Append(selectedNodes, id)
              ELSE selectedNodes
         ELSE IF currentAlgorithm \in {"dijkstra", "bfs", "dfs"}
         THEN <<id>>
         ELSE selectedNodes
    ELSE selectedNodes

\* handleMouseDown on the node with this id
SelectionAfterClick(id) ==
    IF ~isAnimating /\ currentAlgorithm # ""
    THEN IF currentAlgorithm = "findpaths"
         THEN IF Len(selectedNodes) < 2 /\ ~Includes(selectedNodes, id)
              THEN Append(selectedNodes, id)
              ELSE selectedNodes
         ELSE IF currentAlgorithm \in {"dijkstra", "bfs", "dfs"}
         THEN <<id>>
         ELSE selectedNodes
    ELSE selectedNodes

HandleMouseDown(id) ==
    /\ UNCHANGED <<editVars, tableVars>>
    /\ id \in NodeIdSet(nodes)
    /\ isDragging' = TRUE
    /\ dragNodeId' = id
    /\ selectedNodes' = SelectionAfterClick(id)
    /\ UNCHANGED <<input, nodes, edges, isDirected, isAnimating, currentAlgorithm,
                   pathsBetweenNodes, foundCycles, algorithmState, runs, uncaught>>

HandleMouseUp ==
    /\ UNCHANGED <<editVars, tableVars>>
    /\ isDragging' = FALSE
    /\ dragNodeId' = NoNode
    /\ UNCHANGED <<input, nodes, edges, isDirected, isAnimating, currentAlgorithm, selectedNodes,
                   pathsBetweenNodes, foundCycles, algorithmState, runs, uncaught>>

\* Faulty variant: runAlgorithm without its isAnimating guard
NeverRejected(animating) == FALSE

\* if (isAnimating) return;
RunRejected(animating) == animating

\* Faulty variant: runAlgorithm searching from the first to the last selected
\* node as soon as any node is selected
RunSegmentsAnySelection(alg) ==
    IF alg = "cycles" THEN DetectCycles(nodes, edges, isDirected)
    ELSE IF alg = "findpaths" /\ Len(selectedNodes) >= 1
    THEN FindAllPathsBetweenNodes(edges, isDirected,
                                  <<selectedNodes[1], selectedNodes[Len(selectedNodes)]>>)
    ELSE <<>>

\* The segments the started run will issue; none when runAlgorithm starts nothing
RunSegments(alg) ==
    IF alg = "cycles" THEN DetectCycles(nodes, edges, isDirected)
    ELSE IF alg = "findpaths" /\ Len(selectedNodes) = 2
    THEN FindAllPathsBetweenNodes(edges, isDirected, selectedNodes)
    ELSE <<>>

\* A run that has segments left after its first await is in flight; it keeps
\* the closure it was started in (isDirected, selectedNodes)
Started(alg, segs) ==
    IF Len(segs) > 1
    THEN Append(runs, [alg |-> alg, segs |-> Tail(segs),
                       directed |-> isDirected, sel |-> selectedNodes])
    ELSE runs

\* runAlgorithm(algorithm)
RunAlgorithm(alg) ==
    /\ UNCHANGED <<editVars, tableVars>>
    /\ UNCHANGED <<input, isDirected, isDragging, dragNodeId, uncaught>>
    /\ IF RunRejected(isAnimating)
       THEN UNCHANGED <<nodes, edges, isAnimating, currentAlgorithm, selectedNodes,
                        pathsBetweenNodes, foundCycles, algorithmState, runs, uncaught>>
       ELSE LET R1 == [ResetAlgorithmState(Cur) EXCEPT !.currentAlgorithm = alg]
                segs == RunSegments(alg)
            IN /\ Commit(IF segs = <<>> THEN R1 ELSE ApplySegment(R1, Head(segs), isDirected))
               /\ runs' = Started(alg, segs)

\* A pacing delay of run i elapses: the run issues its next segment
Tick(i) ==
    /\ UNCHANGED <<editVars, tableVars>>
    /\ i \in DOMAIN runs
    /\ Commit(ApplySegment(Cur, Head(runs[i].segs), runs[i].directed))
    /\ runs' = IF Len(runs[i].segs) > 1
               THEN [runs EXCEPT ![i].segs = Tail(@)]
               ELSE SubSeq(runs, 1, i - 1) \o SubSeq(runs, i + 1, Len(runs))
    /\ UNCHANGED <<input, isDirected, isDragging, dragNodeId, uncaught>>

\* hangTreeFromRoot(rootId) once rootId is known; an uncaught TypeError leaves
\* the state as it was
HangTree(rootId) ==
    LET res == TreeLevels(nodes, edges, isDirected, rootId)
    IN /\ UNCHANGED <<editVars, tableVars>>
       /\ nodes' = IF res.threw THEN nodes ELSE ApplyTreePositions(nodes, res.levels)
       /\ uncaught' = IF res.threw THEN TypeError("hangTreeFromRoot", rootId) ELSE uncaught
       /\ UNCHANGED <<input, edges, isDirected, isAnimating, currentAlgorithm, selectedNodes,
                      pathsBetweenNodes, foundCycles, algorithmState, isDragging, dragNodeId, runs>>

\* "Arrange Tree from Here" in a node's context menu
HangTreeFromRootRightClick(id) ==
    /\ id \in NodeIdSet(nodes)
    /\ HangTree(id)

\* "Arrange as Tree from Selected" (disabled while animating or with no selection)
HangTreeFromSelected ==
    /\ ~isAnimating
    /\ selectedNodes # <<>>
    /\ HangTree(selectedNodes[1])

Algorithms == {"cycles", "findpaths"}

ClickableIds == NodeIdSet(nodes)

\* The session: every handler but the tree layout
Next ==
    \/ ParseInput
    \/ \E t \in Texts : SetInput(t)
    \/ SetIsDirected
    \/ ResetClick
    \/ ClickFindAllPaths
    \/ \E id \in ClickableIds : HandleMouseDown(id)
    \/ HandleMouseUp
    \/ \E alg \in Algorithms : RunAlgorithm(alg)
    \/ \E i \in DOMAIN runs : Tick(i)

Spec == Init /\ [][Next]_vars

\* A timer set by sleep() fires: every pending pacing delay eventually elapses
LiveSpec == Spec /\ WF_vars(\E i \in DOMAIN runs : Tick(i))

\* The mounted component on every graph of the bounded family
GraphInit == (\E t \in FamilyTexts : \E d \in BOOLEAN : Mounted(t, d)) /\ NoTable

\* Path runs on every graph of the bounded family
PathNext ==
    \/ ClickFindAllPaths
    \/ \E id \in ClickableIds : HandleMouseDown(id)
    \/ RunAlgorithm("findpaths")
    \/ \E i \in DOMAIN runs : Tick(i)

PathSpec == GraphInit /\ [][PathNext]_vars

\* Cycle runs on every graph of the bounded family
CycleNext ==
    \/ RunAlgorithm("cycles")
    \/ \E i \in DOMAIN runs : Tick(i)
    \/ ResetClick

CycleSpec == GraphInit /\ [][CycleNext]_vars

\* The tree layout on every graph of the bounded family
TreeNext ==
    \/ ClickFindAllPaths
    \/ \E id \in ClickableIds : HandleMouseDown(id)
    \/ \E id \in ClickableIds : HangTreeFromRootRightClick(id)
    \/ HangTreeFromSelected

TreeSpec == GraphInit /\ [][TreeNext]_vars

----------------------------------------------------------------------------
(* Actions that stay enabled while a run is animating: node drag, label edit *)

\* Where the pointer drags a node to (pos.x - dragOffset.x, pos.y - dragOffset.y)
DragPositions == {XYPos(120, 90)}

\* handleMouseMove(e)
HandleMouseMove(pos) ==
    /\ UNCHANGED <<editVars, tableVars>>
    /\ isDragging /\ dragNodeId # NoNode
    /\ nodes' = [i \in DOMAIN nodes |->
                    IF nodes[i].id = dragNodeId THEN [nodes[i] EXCEPT !.pos = pos] ELSE nodes[i]]
    /\ UNCHANGED <<input, edges, isDirected, isAnimating, currentAlgorithm, selectedNodes,
                   pathsBetweenNodes, foundCycles, algorithmState, isDragging, dragNodeId,
                   runs, uncaught>>

\* editNodeLabel(nodeId), from the context menu of a node
EditNodeLabel(id) ==
    /\ id \in NodeIdSet(nodes)
    /\ editingNode' = id
    /\ labelInput' = nodes[CHOOSE i \in DOMAIN nodes :
                              nodes[i].id = id /\ \A j \in 1..(i - 1) : nodes[j].id # id].label
    /\ UNCHANGED <<canvasVars, tableVars>>

\* The label editor's onChange, rendered while a node is being edited
SetLabelInput(text) ==
    /\ editingNode # NoNode
    /\ labelInput' = text
    /\ UNCHANGED <<canvasVars, editingNode, tableVars>>

\* saveLabel(), rendered while a node is being edited
SaveLabel ==
    /\ editingNode # NoNode
    /\ nodes' = [i \in DOMAIN nodes |->
                    IF nodes[i].id = editingNode THEN [nodes[i] EXCEPT !.label = labelInput]
                    ELSE nodes[i]]
    /\ editingNode' = NoNode
    /\ labelInput' = ""
    /\ UNCHANGED <<input, edges, isDirected, isAnimating, currentAlgorithm, selectedNodes,
                   pathsBetweenNodes, foundCycles, algorithmState, isDragging, dragNodeId,
                   runs, uncaught, tableVars>>

\* Runs on a two-node graph with the user dragging, labelling and laying out
InterleaveInit == (\E d \in BOOLEAN : Mounted(ParallelInput, d)) /\ NoTable

InterleaveNext ==
    \/ ClickFindAllPaths
    \/ \E id \in ClickableIds : HandleMouseDown(id)
    \/ HandleMouseUp
    \/ \E pos \in DragPositions : HandleMouseMove(pos)
    \/ \E id \in ClickableIds : EditNodeLabel(id)
    \/ \E text \in {"", "a"} : SetLabelInput(text)
    \/ SaveLabel
    \/ \E id \in ClickableIds : HangTreeFromRootRightClick(id)
    \/ \E alg \in Algorithms : RunAlgorithm(alg)
    \/ \E i \in DOMAIN runs : Tick(i)

InterleaveSpec == InterleaveInit /\ [][InterleaveNext]_vars

----------------------------------------------------------------------------
(* NodeTable.jsx: the label table.  An id is typed as text, a sequence of    *)
(* characters; surrounding blanks and signs are left out of the alphabet.    *)

\* Calls of onNodesUpdate are counted up to MaxNotifications.
MaxNotifications == 3
\* Typed id texts have at most MaxIdLen characters.
MaxIdLen == 2

Digits == <<"0", "1", "2", "3", "4", "5", "6", "7", "8", "9">>

IsDigit(c) == \E d \in DOMAIN Digits : Digits[d] = c

DigitValue(c) == (CHOOSE d \in DOMAIN Digits : Digits[d] = c) - 1

\* isNaN(parseInt(text)): parseInt gives NaN unless the text starts with a digit
IsNaN(text) == text = <<>> \/ ~IsDigit(Head(text))

\* parseInt(text) reads the leading digits and ignores whatever follows them
RECURSIVE LeadingDigits(_, _)
LeadingDigits(text, acc) ==
    IF text = <<>> \/ ~IsDigit(Head(text)) THEN acc
    ELSE LeadingDigits(Tail(text), acc * 10 + DigitValue(Head(text)))

ParseInt(text) == LeadingDigits(text, 0)

Row(id, label) == [id |-> id, label |-> label]

\* tableNodes.some(n => n.id === id)
HasId(tbl, id) == \E i \in DOMAIN tbl : tbl[i].id = id

\* useEffect: setTableNodes(nodes.map(node => ({ id: node.id, label: node.label || '' })))
SyncFromParent(N) == [i \in DOMAIN N |-> Row(N[i].id, N[i].label)]

\* if (isNaN(id) || tableNodes.some(n => n.id === id)) { alert(..); return; }
AddNodeRejected(tbl, text) == IsNaN(text) \/ HasId(tbl, ParseInt(text))

\* addNode(), with newNodeId = text and newNodeLabel = label
AddNode(text, label) ==
    /\ UNCHANGED <<canvasVars, editVars>>
    /\ IF AddNodeRejected(tableNodes, text)
       THEN UNCHANGED tableVars
       ELSE /\ notifications < MaxNotifications
            /\ tableNodes' = Append(tableNodes, Row(ParseInt(text), label))
            /\ notifications' = notifications + 1

\* pairs.forEach(({ id, label }) => { if (!isNaN(id)) { update the row found, or push } })
RECURSIVE BatchRows(_, _)
BatchRows(tbl, pairs) ==
    IF pairs = <<>> THEN tbl
    ELSE LET text == Head(pairs).text
             label == Head(pairs).label
             id == ParseInt(text)
             existingIndex == CHOOSE i \in DOMAIN tbl :
                                 tbl[i].id = id /\ \A j \in 1..(i - 1) : tbl[j].id # id
         IN IF IsNaN(text) THEN BatchRows(tbl, Tail(pairs))
            ELSE IF HasId(tbl, id)
            THEN BatchRows([tbl EXCEPT ![existingIndex].label = label], Tail(pairs))
            ELSE BatchRows(Append(tbl, Row(id, label)), Tail(pairs))

\* batchUpdate(), the prompt answered with the pairs text:label,...
BatchUpdate(pairs) ==
    /\ UNCHANGED <<canvasVars, editVars>>
    /\ pairs # <<>>
    /\ notifications < MaxNotifications
    /\ tableNodes' = BatchRows(tableNodes, pairs)
    /\ notifications' = notifications + 1

\* deleteNode(nodeId), the confirm dialog accepted
DeleteNode(id) ==
    LET Others(n) == n.id # id
    IN /\ UNCHANGED <<canvasVars, editVars>>
       /\ HasId(tableNodes, id)
       /\ notifications < MaxNotifications
       /\ tableNodes' = SelectSeq(tableNodes, Others)
       /\ notifications' = notifications + 1

\* The texts typed as ids, and the labels
IdChars == {"0", "1", "x"}
IdTexts == UNION {[1..n -> IdChars] : n \in 0..MaxIdLen}
Labels == {"", "a"}
Pair(text, label) == [text |-> text, label |-> label]
Pairs == {Pair(t, l) : t \in IdTexts, l \in Labels}
BatchInputs == {<<p>> : p \in Pairs} \cup {<<p, q>> : p \in Pairs, q \in Pairs}

\* The nodes prop of the table
TableProps == {<<>>, ParsedNodes(<<NodeLine(0)>>), ParsedNodes(<<NodeLine(0), NodeLine(1)>>)}

TableInit ==
    /\ Mounted(DefaultInput, FALSE)
    /\ notifications = 0
    /\ \E N \in TableProps : tableNodes = SyncFromParent(N)

TableNext ==
    \/ \E text \in IdTexts : \E label \in Labels : AddNode(text, label)
    \/ \E pairs \in BatchInputs : BatchUpdate(pairs)
    \/ \E i \in DOMAIN tableNodes : DeleteNode(tableNodes[i].id)

TableSpec == TableInit /\ [][TableNext]_vars

----------------------------------------------------------------------------
(* Graph notions the properties are stated with *)

\* Every id the graph mentions, as a node or as an edge endpoint
GraphIds(N, E) == NodeIdSet(N) \cup {E[i].from : i \in DOMAIN E} \cup {E[i].to : i \in DOMAIN E}

\* Some non-self-loop edge leads from a to b
Joined(E, directed, a, b) ==
    \E i \in DOMAIN E :
        /\ E[i].from # E[i].to
        /\ \/ (E[i].from = a /\ E[i].to = b)
           \/ (~directed /\ E[i].from = b /\ E[i].to = a)

NoRepeat(s) == \A i, j \in DOMAIN s : i # j => s[i] # s[j]

\* The sequences of n distinct elements of U
Arrangements(U, n) == {s \in [1..n -> U] : NoRepeat(s)}

IsSimplePath(p, E, directed, source, target) ==
    /\ Len(p) >= 1
    /\ NoRepeat(p)
    /\ p[1] = source
    /\ p[Len(p)] = target
    /\ \A i \in 1..(Len(p) - 1) : Joined(E, directed, p[i], p[i + 1])

SimplePaths(N, E, directed, source, target) ==
    LET U == GraphIds(N, E)
    IN {p \in UNION {Arrangements(U, n) : n \in 1..Cardinality(U)} :
          IsSimplePath(p, E, directed, source, target)}

\* c, closed from its last element back to its first, is a cycle of the graph:
\* a self-loop, or at least two nodes joined in turn (three when undirected,
\* where going back over the same edge closes nothing)
IsCycleWalk(c, E, directed) ==
    IF Len(c) = 1
    THEN \E i \in DOMAIN E : E[i].from = c[1] /\ E[i].to = c[1]
    ELSE /\ Len(c) >= (IF directed THEN 2 ELSE 3)
         /\ \A i \in DOMAIN c : Joined(E, directed, c[i], c[(i % Len(c)) + 1])

\* The node sets of the elementary cycles of the graph
ElementaryCycleSets(N, E, directed) ==
    {S \in SUBSET GraphIds(N, E) :
        S # {} /\ \E c \in Arrangements(S, Cardinality(S)) : IsCycleWalk(c, E, directed)}

Range(s) == {s[i] : i \in DOMAIN s}

\* The ids at most k hops from root, the root itself at 0 hops
RECURSIVE WithinHops(_, _, _, _, _)
WithinHops(N, E, directed, root, k) ==
    IF k = 0 THEN {root}
    ELSE LET W == WithinHops(N, E, directed, root, k - 1)
         IN W \cup {b \in GraphIds(N, E) : \E a \in W : Joined(E, directed, a, b)}

ReachableFrom(N, E, directed, root) ==
    WithinHops(N, E, directed, root, Cardinality(GraphIds(N, E)))

\* The shortest hop distance from root to a reachable id
HopDistance(N, E, directed, root, id) ==
    CHOOSE k \in 0..Cardinality(GraphIds(N, E)) :
        /\ id \in WithinHops(N, E, directed, root, k)
        /\ \A j \in 0..(k - 1) : id \notin WithinHops(N, E, directed, root, j)

NodeColors(N) == [i \in DOMAIN N |-> N[i].color]

\* Steps at which a run delivers its result
CycleRunEnds == runs # <<>> /\ runs[1].alg = "cycles" /\ Len(runs') < Len(runs)
PathRunEndsLater == runs # <<>> /\ runs[1].alg = "findpaths" /\ Len(runs') < Len(runs)
PathRunEndsAtOnce ==
    ~isAnimating /\ Len(selectedNodes) = 2 /\ RunAlgorithm("findpaths") /\ runs' = runs

----------------------------------------------------------------------------
(* Properties *)

\* C1: at most one run is in flight at any time, and isAnimating is true while
\* it is; a runAlgorithm call made while isAnimating changes nothing; and while
\* a run is in flight every step is either that run's own next segment or
\* leaves the run (its pending updates and result), the colours and highlights,
\* the published lists and isAnimating as they were.
OneRunAtATime ==
    [][ /\ Len(runs') <= 1
        /\ (runs' # <<>> => isAnimating')
        /\ \A alg \in Algorithms : (isAnimating /\ RunAlgorithm(alg)) => UNCHANGED vars
        /\ (runs # <<>> =>
              \/ \E i \in DOMAIN runs : Tick(i)
              \/ /\ runs' = runs
                 /\ NodeColors(nodes') = NodeColors(nodes)
                 /\ edges' = edges
                 /\ isAnimating' = isAnimating
                 /\ foundCycles' = foundCycles
                 /\ pathsBetweenNodes' = pathsBetweenNodes) ]_vars

\* C1 witness: a cycle run is in flight, past its first highlight
RunInFlight ==
    /\ Len(runs) = 1
    /\ isAnimating
    /\ currentAlgorithm = "cycles"
    /\ \E i \in DOMAIN nodes : nodes[i].color # NodeBaseColor

\* C2: whenever isAnimating is true, later it is false again with no run left
\* in flight (every pending pacing delay eventually elapses).
RunCompletes == isAnimating ~> (~isAnimating /\ runs = <<>>)

\* C2 witness: a cycle run has ended and published its list
CycleRunCompleted ==
    /\ ~isAnimating
    /\ runs = <<>>
    /\ currentAlgorithm = "cycles"
    /\ foundCycles # <<>>
    /\ algorithmState.cycleCount = Len(foundCycles)

\* C3: when a cycle run ends, every elementary cycle of the graph, identified
\* by its node set, is in the published cycle list.
AllElementaryCyclesReported ==
    [][ CycleRunEnds =>
          \A S \in ElementaryCycleSets(nodes, edges, runs[1].directed) :
             \E k \in DOMAIN foundCycles' : Range(foundCycles'[k]) = S ]_vars

\* C4: when a cycle run ends, no two entries of the published cycle list have
\* the same sorted node-id sequence.
NoTwoCyclesWithSameSortedIds ==
    [][ CycleRunEnds =>
          \A j, k \in DOMAIN foundCycles' :
             j # k => SortNum(foundCycles'[j]) # SortNum(foundCycles'[k]) ]_vars

\* C5: when a cycle run ends, every published cycle has no repeated node id
\* and is a closed walk of the graph: a self-loop as [v], otherwise each
\* element joined to its successor, the last to the first, by a non-self-loop
\* edge (in its direction when directed).
ReportedCyclesAreClosedWalks ==
    [][ CycleRunEnds =>
          \A k \in DOMAIN foundCycles' :
             /\ NoRepeat(foundCycles'[k])
             /\ IsCycleWalk(foundCycles'[k], edges, runs[1].directed) ]_vars

\* C6: when a path run ends, every simple path from the first selected node to
\* the second (edges followed forward when directed, either way when
\* undirected, never a self-loop) is in the published path list.
PathFinderExhaustive ==
    [][ /\ PathRunEndsAtOnce =>
             \A p \in SimplePaths(nodes, edges, isDirected, selectedNodes[1], selectedNodes[2]) :
                Includes(pathsBetweenNodes', p)
        /\ PathRunEndsLater =>
             \A p \in SimplePaths(nodes, edges, runs[1].directed, runs[1].sel[1], runs[1].sel[2]) :
                Includes(pathsBetweenNodes', p) ]_vars

\* C6 witness: a published list with two different paths, one of them through
\* an intermediate node
TwoPathsPublished ==
    /\ ~isAnimating
    /\ runs = <<>>
    /\ \E j, k \in DOMAIN pathsBetweenNodes :
          /\ pathsBetweenNodes[j] # pathsBetweenNodes[k]
          /\ Len(pathsBetweenNodes[k]) = 3

\* C7: when a path run ends, every published path has no repeated node id,
\* starts at the first selected node and ends at the second.
PathsAreSimpleFromSourceToTarget ==
    [][ /\ PathRunEndsAtOnce =>
             \A k \in DOMAIN pathsBetweenNodes' :
                /\ NoRepeat(pathsBetweenNodes'[k])
                /\ pathsBetweenNodes'[k][1] = selectedNodes[1]
                /\ pathsBetweenNodes'[k][Len(pathsBetweenNodes'[k])] = selectedNodes[2]
        /\ PathRunEndsLater =>
             \A k \in DOMAIN pathsBetweenNodes' :
                /\ NoRepeat(pathsBetweenNodes'[k])
                /\ pathsBetweenNodes'[k][1] = runs[1].sel[1]
                /\ pathsBetweenNodes'[k][Len(pathsBetweenNodes'[k])] = runs[1].sel[2] ]_vars

\* C7 witness: a published path through an intermediate node
LongPathPublished ==
    /\ ~isAnimating
    /\ runs = <<>>
    /\ \E k \in DOMAIN pathsBetweenNodes : Len(pathsBetweenNodes[k]) = 3

\* C8: a tree layout from a root puts every node reachable from the root
\* (forward edges when directed, both ways when undirected, no self-loops) on
\* the level of its shortest hop distance from the root, the root on level 0,
\* and leaves every unreachable node where it was.
TreeLayeringAssignsHopDistance ==
    [][ \A r \in NodeIdSet(nodes) :
          HangTreeFromRootRightClick(r) =>
             \A i \in DOMAIN nodes :
                IF nodes[i].id \in ReachableFrom(nodes, edges, isDirected, r)
                THEN /\ nodes'[i].pos.kind = "xy"
                     /\ nodes'[i].pos.b =
                          BaseY + VerticalGap * HopDistance(nodes, edges, isDirected, r, nodes[i].id)
                ELSE nodes'[i].pos = nodes[i].pos ]_vars

\* C9: every edge's from and to are ids of nodes of the graph.
EdgesReferenceNodes ==
    \A i \in DOMAIN edges :
        edges[i].from \in NodeIdSet(nodes) /\ edges[i].to \in NodeIdSet(nodes)

\* C10: parse yields one node per declared id, however many lines declare it,
\* and one edge record per edge line.
ParseYieldsUniqueNodeIds ==
    [][ ParseInput =>
          /\ NoRepeat([i \in DOMAIN nodes' |-> nodes'[i].id])
          /\ NodeIdSet(nodes') = {input[i][1].val : i \in {j \in DOMAIN input : IsNodeLine(input[j])}}
          /\ Len(edges') = Cardinality({j \in DOMAIN input : IsEdgeLine(input[j])}) ]_vars

\* The node ids and the edge endpoints, in list order
Ids(N) == [i \in DOMAIN N |-> N[i].id]
Endpoints(E) == [i \in DOMAIN E |-> <<E[i].from, E[i].to>>]

\* The graph of the concrete scenarios: nodes 0..4, edges 0 1, 1 2, 2 3, 3 0,
\* 1 4 and the self-loop 2 2, declared in that order
OnScenarioGraph ==
    /\ Ids(nodes) = <<0, 1, 2, 3, 4>>
    /\ Endpoints(edges) = <<<<0, 1>>, <<1, 2>>, <<2, 3>>, <<3, 0>>, <<1, 4>>, <<2, 2>>>>

\* C11: no operation raises an exception, whatever text was parsed (edges to
\* undeclared nodes included) and whichever declared node is the root.
NoOperationThrows == uncaught = NoError

\* C12: on the scenario graph, directed, the cycle run publishes exactly
\* [[2],[0,1,2,3]].
ScenarioDirectedCycles ==
    [][ (CycleRunEnds /\ OnScenarioGraph /\ runs[1].directed) =>
          foundCycles' = <<<<2>>, <<0, 1, 2, 3>>>> ]_vars

\* C13, as the code has it: on the scenario graph, undirected, the path run
\* from 0 to 4 publishes exactly the two simple paths [0,1,4] and [0,3,2,1,4],
\* in that order.
ScenarioPathsBothWays ==
    [][ (PathRunEndsLater /\ OnScenarioGraph /\ ~runs[1].directed /\ runs[1].sel = <<0, 4>>) =>
          pathsBetweenNodes' = <<<<0, 1, 4>>, <<0, 3, 2, 1, 4>>>> ]_vars

\* C13, as stated: on the scenario graph, undirected, the path run from 0 to 4
\* publishes exactly one path, [0,1,4].
ScenarioOnePath ==
    [][ (PathRunEndsLater /\ OnScenarioGraph /\ ~runs[1].directed /\ runs[1].sel = <<0, 4>>) =>
          pathsBetweenNodes' = <<<<0, 1, 4>>>> ]_vars

\* C13 witness: the path run from 0 to 4 on the undirected scenario graph has
\* ended and published its list
ScenarioPathsPublished ==
    /\ OnScenarioGraph
    /\ ~isDirected
    /\ ~isAnimating
    /\ runs = <<>>
    /\ currentAlgorithm = "findpaths"
    /\ Len(pathsBetweenNodes) = 2
    /\ pathsBetweenNodes[1] = <<0, 1, 4>>

\* C14: on the scenario graph, undirected, the cycle run publishes exactly
\* [[2],[0,1,2,3]], the self-loop first.
ScenarioUndirectedCycles ==
    [][ (CycleRunEnds /\ OnScenarioGraph /\ ~runs[1].directed) =>
          foundCycles' = <<<<2>>, <<0, 1, 2, 3>>>> ]_vars

\* C14 witness: the cycle run on the undirected scenario graph has ended and
\* published two cycles
ScenarioCyclesPublished ==
    /\ OnScenarioGraph
    /\ ~isDirected
    /\ ~isAnimating
    /\ runs = <<>>
    /\ currentAlgorithm = "cycles"
    /\ Len(foundCycles) = 2

\* C15: when a cycle run ends, the published list starts with one [v] per
\* self-loop edge (v,v), in edge-list order, and every later entry has more
\* than one node.
SelfLoopCyclesFirst ==
    [][ CycleRunEnds =>
          LET Loop(e) == e.from = e.to
              loops == SelectSeq(edges, Loop)
          IN /\ Len(foundCycles') >= Len(loops)
             /\ \A i \in DOMAIN loops : foundCycles'[i] = <<loops[i].from>>
             /\ \A k \in (Len(loops) + 1)..Len(foundCycles') : Len(foundCycles'[k]) > 1 ]_vars

\* C15 witness: a published list with a self-loop cycle followed by a
\* multi-node cycle
SelfLoopThenCyclePublished ==
    /\ ~isAnimating
    /\ runs = <<>>
    /\ Len(foundCycles) >= 2
    /\ Len(foundCycles[1]) = 1
    /\ Len(foundCycles[Len(foundCycles)]) > 1

\* C16: a path run invoked with other than two selected nodes changes nothing:
\* the selection, the current algorithm, both result lists and the node and
\* edge colours stay as they were, and no run starts.
InvalidSelectionIsNoOp ==
    [][ (Len(selectedNodes) # 2 /\ RunAlgorithm("findpaths")) =>
          /\ UNCHANGED <<selectedNodes, currentAlgorithm, foundCycles, pathsBetweenNodes,
                         nodes, edges>>
          /\ runs' = runs ]_vars

\* C17: a path run invoked with one selected node leaves the path list empty,
\* isAnimating false and no run in flight, and colours no node or edge.
OneSelectedNodeStartsNothing ==
    [][ (Len(selectedNodes) = 1 /\ RunAlgorithm("findpaths")) =>
          /\ pathsBetweenNodes' = <<>>
          /\ ~isAnimating'
          /\ runs' = <<>>
          /\ \A i \in DOMAIN nodes' : nodes'[i].color = NodeBaseColor
          /\ \A i \in DOMAIN edges' :
                edges'[i].color = EdgeBaseColor /\ ~edges'[i].highlighted ]_vars

\* C17 witness: one node is selected for the path search, the state the run is
\* invoked from
OneNodeSelected ==
    /\ Len(selectedNodes) = 1
    /\ currentAlgorithm = "findpaths"
    /\ ~isAnimating
    /\ runs = <<>>

\* The graph with every node and edge at its baseline colour, no edge highlighted
Baseline(R) ==
    [R EXCEPT !.nodes = [i \in DOMAIN @ |-> [@[i] EXCEPT !.color = NodeBaseColor]],
              !.edges = [i \in DOMAIN @ |->
                            [@[i] EXCEPT !.color = EdgeBaseColor, !.highlighted = FALSE]]]

\* C18: a run begins on baseline colours, whatever an earlier run left: after
\* the step that starts it, nodes and edges are what the run's updates up to
\* its first pacing delay make of the all-baseline graph; and after a parse
\* every node and edge has its baseline colour and no edge is highlighted.
RunAndParseStartFromBaseline ==
    [][ /\ \A alg \in Algorithms :
             (~isAnimating /\ RunAlgorithm(alg)) =>
                LET segs == RunSegments(alg)
                    R == IF segs = <<>> THEN Baseline(Cur)
                         ELSE ApplySegment(Baseline(Cur), Head(segs), isDirected)
                IN nodes' = R.nodes /\ edges' = R.edges
        /\ ParseInput =>
             /\ \A i \in DOMAIN nodes' : nodes'[i].color = NodeBaseColor
             /\ \A i \in DOMAIN edges' :
                   edges'[i].color = EdgeBaseColor /\ ~edges'[i].highlighted ]_vars

\* C18 witness: an ended run has left coloured nodes and a highlighted edge
\* behind, the state a new run or a parse begins from
EarlierRunLeftColours ==
    /\ ~isAnimating
    /\ runs = <<>>
    /\ \E i \in DOMAIN edges : edges[i].highlighted /\ edges[i].color # EdgeBaseColor
    /\ \E i \in DOMAIN nodes : nodes[i].color # NodeBaseColor

\* C19: after a parse the graph is the one the text describes, the selection
\* and both result lists are empty, the current algorithm and isAnimating are
\* cleared, and no node or edge carries a highlight.
ParseClearsTransientState ==
    [][ ParseInput =>
          /\ Ids(nodes') = ParseNodeIds(SelectSeq(input, NonBlank))
          /\ Len(edges') = Len(ParseEdges(SelectSeq(input, NonBlank)))
          /\ selectedNodes' = <<>>
          /\ foundCycles' = <<>>
          /\ pathsBetweenNodes' = <<>>
          /\ algorithmState'.cycleCount = 0
          /\ currentAlgorithm' = ""
          /\ ~isAnimating'
          /\ \A i \in DOMAIN nodes' : nodes'[i].color = NodeBaseColor
          /\ \A i \in DOMAIN edges' :
                edges'[i].color = EdgeBaseColor /\ ~edges'[i].highlighted ]_vars

\* C19 witness: a typed text has been parsed: the graph is the text's and
\* nothing transient is left
TypedTextParsed ==
    /\ input # DefaultInput
    /\ Ids(nodes) = ParseNodeIds(SelectSeq(input, NonBlank))
    /\ Endpoints(edges) = Endpoints(ParseEdges(SelectSeq(input, NonBlank)))
    /\ currentAlgorithm = ""
    /\ selectedNodes = <<>>
    /\ foundCycles = <<>>
    /\ pathsBetweenNodes = <<>>

\* A segment that publishes a non-empty result list
Publishes(seg) ==
    \E k \in DOMAIN seg : seg[k].type \in {"cycles", "paths"} /\ seg[k].val # <<>>

\* C20: while a run is active both published lists are empty; the step in
\* which a run ends publishes the run's full result list and clears
\* isAnimating; and no update a run issues before its last segment carries a
\* result list with entries.
ResultsOnlyAtCompletion ==
    [][ /\ (isAnimating' => (foundCycles' = <<>> /\ pathsBetweenNodes' = <<>>))
        /\ (CycleRunEnds =>
              /\ ~isAnimating'
              /\ foundCycles' = CycleFinder(nodes, edges, runs[1].directed))
        /\ (PathRunEndsLater =>
              /\ ~isAnimating'
              /\ pathsBetweenNodes' =
                    PathFinder(edges, runs[1].directed, runs[1].sel[1], runs[1].sel[2]))
        /\ \A i \in DOMAIN runs' :
              \A j \in 1..(Len(runs'[i].segs) - 1) : ~Publishes(runs'[i].segs[j]) ]_vars

\* C20 witness: a path run is showing a path and has published nothing yet
PathRunShowingPaths ==
    /\ Len(runs) = 1
    /\ runs[1].alg = "findpaths"
    /\ isAnimating
    /\ pathsBetweenNodes = <<>>
    /\ \E i \in DOMAIN edges : edges[i].highlighted

\* C21: when a path run ends, no two entries of the published path list are
\* the same node-id sequence, parallel edges or not.
PublishedPathsAreDistinct ==
    [][ (PathRunEndsAtOnce \/ PathRunEndsLater) => NoRepeat(pathsBetweenNodes') ]_vars

\* A forest: no self-loop, no two edges between the same pair of nodes, and no
\* cycle
IsForest(N, E) ==
    /\ \A i \in DOMAIN E : E[i].from # E[i].to
    /\ \A i, j \in DOMAIN E :
          i # j => {E[i].from, E[i].to} # {E[j].from, E[j].to}
    /\ ElementaryCycleSets(N, E, FALSE) = {}

\* C22: when a cycle run on an undirected forest ends, the published cycle
\* list is empty.
ForestHasNoCycles ==
    [][ (CycleRunEnds /\ ~runs[1].directed /\ IsForest(nodes, edges)) =>
          foundCycles' = <<>> ]_vars

\* C22 witness: a cycle run on an undirected tree of two edges has ended with
\* an empty list
ForestRunCompleted ==
    /\ ~isAnimating
    /\ runs = <<>>
    /\ currentAlgorithm = "cycles"
    /\ ~isDirected
    /\ Len(edges) = 2
    /\ IsForest(nodes, edges)
    /\ foundCycles = <<>>

\* C24: whenever the published path list is non-empty, the selection holds
\* exactly two nodes, the first and last node of every published path.
PublishedPathsKeepSelection ==
    pathsBetweenNodes # <<>> =>
        /\ Len(selectedNodes) = 2
        /\ \A k \in DOMAIN pathsBetweenNodes :
              /\ pathsBetweenNodes[k][1] = selectedNodes[1]
              /\ pathsBetweenNodes[k][Len(pathsBetweenNodes[k])] = selectedNodes[2]

\* C25: the selection holds at most two node ids, no id twice; a run starts
\* from a selection with no id twice; and a node click while a run is active
\* leaves the selection as it is.
SelectionIsSmallAndDistinct ==
    [][ /\ Len(selectedNodes') <= 2
        /\ NoRepeat(selectedNodes')
        /\ \A i \in DOMAIN runs' : NoRepeat(runs'[i].sel)
        /\ \A id \in ClickableIds :
              (isAnimating /\ HandleMouseDown(id)) => selectedNodes' = selectedNodes ]_vars

\* C25 witness: two nodes are selected for the path search and one of them
\* has just been clicked again
TwoNodesSelected ==
    /\ currentAlgorithm = "findpaths"
    /\ Len(selectedNodes) = 2
    /\ isDragging
    /\ dragNodeId = selectedNodes[1]

\* A text that is a number: digits and nothing else
IsNumeral(text) == text # <<>> /\ \A i \in DOMAIN text : IsDigit(text[i])

\* The id a numeral denotes
RECURSIVE NumeralValue(_)
NumeralValue(text) ==
    IF text = <<>> THEN 0
    ELSE 10 * NumeralValue(SubSeq(text, 1, Len(text) - 1)) + DigitValue(text[Len(text)])

\* An id text the table must reject: no number, or the id of a row
MustReject(tbl, text) == ~IsNumeral(text) \/ HasId(tbl, NumeralValue(text))

\* C23: addNode given an id text that is no number or names an existing row,
\* and batchUpdate given only such id texts, leave the table's rows as they
\* were and do not call onNodesUpdate; and no id appears in two rows.
TableRejectsBadIds ==
    [][ /\ \A text \in IdTexts : \A label \in Labels :
              (AddNode(text, label) /\ MustReject(tableNodes, text)) => UNCHANGED tableVars
        /\ \A pairs \in BatchInputs :
              (/\ BatchUpdate(pairs)
               /\ \A k \in DOMAIN pairs : MustReject(tableNodes, pairs[k].text))
              => UNCHANGED tableVars
        /\ NoRepeat(Ids(tableNodes')) ]_vars

RECURSIVE ApplySegments(_, _, _)
ApplySegments(R, segs, directed) ==
    IF segs = <<>> THEN R
    ELSE ApplySegments(ApplySegment(R, Head(segs), directed), Tail(segs), directed)

\* The state a run ends in when nothing interleaves with it: all its updates
\* applied, in order, to the baseline graph it starts from
Uninterrupted(run) ==
    ApplySegments(Baseline(Cur),
                  IF run.alg = "cycles" THEN DetectCycles(nodes, edges, run.directed)
                  ELSE FindAllPathsBetweenNodes(edges, run.directed, run.sel),
                  run.directed)

NodePlaces(N) == [i \in DOMAIN N |-> [id |-> N[i].id, pos |-> N[i].pos, label |-> N[i].label]]

EdgeEnds(E) == [i \in DOMAIN E |-> [from |-> E[i].from, to |-> E[i].to, weight |-> E[i].weight]]

\* C26: a drag, a label save and a tree layout change no colour and no edge;
\* a run's updates change no position, label, node id or edge endpoint; and
\* when a run ends, however the user's actions interleaved with it, the node
\* colours and the edges are those of the uninterrupted run.
UserActionsInterleaveSafely ==
    [][ /\ ( \/ \E pos \in DragPositions : HandleMouseMove(pos)
             \/ SaveLabel
             \/ \E id \in ClickableIds : HangTreeFromRootRightClick(id) )
           => (NodeColors(nodes') = NodeColors(nodes) /\ Ids(nodes') = Ids(nodes) /\ edges' = edges)
        /\ (\E i \in DOMAIN runs : Tick(i))
           => (NodePlaces(nodes') = NodePlaces(nodes) /\ EdgeEnds(edges') = EdgeEnds(edges))
        /\ (runs # <<>> /\ Len(runs') < Len(runs))
           => /\ NodeColors(nodes') = NodeColors(Uninterrupted(runs[1]).nodes)
              /\ edges' = Uninterrupted(runs[1]).edges ]_vars

\* C26 witness: while a run is animating, a coloured node has been moved off
\* its initial place and relabelled
MovedAndLabelledDuringRun ==
    /\ isAnimating
    /\ runs # <<>>
    /\ \E i \in DOMAIN nodes :
          /\ nodes[i].color # NodeBaseColor
          /\ nodes[i].pos \in DragPositions
          /\ nodes[i].label = "a"
    /\ \E i \in DOMAIN nodes :
          nodes[i].pos.kind = "xy" /\ nodes[i].pos \notin DragPositions

====
